---- MODULE Spec2Model ----
(***************************************************************************)
(* A model of the Conversion Request Pipeline of file2md:                  *)
(*   app/core/converter.py   DocumentConverter, get_converter              *)
(*   app/utils/download.py   download_file_from_url                        *)
(*   app/api/routes.py       the four convert endpoints                    *)
(*   app/main.py             startup_event                                 *)
(*                                                                         *)
(* Requests are coroutines of one asyncio event loop: the code between two *)
(* awaits of a coroutine is one action.  The engine's convert runs on a    *)
(* thread of the default executor and is an action of its own.  Blocking   *)
(* code on the loop thread (_safe_delete_file with its time.sleep) keeps   *)
(* every other coroutine from running until it returns.                    *)
(***************************************************************************)
EXTENDS Integers, Sequences, FiniteSets, TLC

(***************************************************************************)
(* Settings (app/core/config.py) and literals of the code.                 *)
(***************************************************************************)
\* settings.MAX_FILE_SIZE, the default value
MAX_FILE_SIZE == 104857600
\* settings.MAX_DOWNLOAD_SIZE: a setting read from the environment; the model
\* runs with a small configured value so that a few chunks cross it
MAX_DOWNLOAD_SIZE == 20000
\* response.content.iter_chunked(8192)
ChunkSize == 8192
\* _safe_delete_file(max_retries = 5)
max_retries == 5
\* _safe_delete_file's default retry_delay = 0.1, in tenths of a second
retry_delay == 1
\* _global_converter: Optional[DocumentConverter] = None; instances are 1, 2, ...
None == 0

(***************************************************************************)
(* Bounds of the model.                                                    *)
(***************************************************************************)
\* most chunks the remote server delivers in one response
MaxChunks == 4
\* characters of a URL after its host
MaxUrlRest == 3
\* threads that call get_converter in parallel (SpecThreads)
NThreads == 3

\* the requests in flight
Req == {"r1", "r2"}
Threads == 1..NThreads

\* strings are sequences of characters
\* settings.SUPPORTED_EXTENSIONS = ".pdf,.docx,.pptx,.xlsx,.html,.htm"
SUPPORTED_EXTENSIONS ==
    <<".","p","d","f", ",", ".","d","o","c","x", ",", ".","p","p","t","x", ",",
      ".","x","l","s","x", ",", ".","h","t","m","l", ",", ".","h","t","m">>

\* str.lower() on the characters the model uses
LowerChar(c) ==
    CASE c = "P" -> "p" [] c = "D" -> "d" [] c = "F" -> "f" [] OTHER -> c

lower(s) == [i \in 1..Len(s) |-> LowerChar(s[i])]

\* sep in s, for a one-character separator
Contains(s, sep) == \E i \in 1..Len(s) : s[i] = sep

\* s.split(sep): the pieces of s between the occurrences of sep
RECURSIVE split(_, _)
split(s, sep) ==
    IF ~Contains(s, sep) THEN <<s>>
    ELSE LET i == CHOOSE k \in 1..Len(s) :
                      s[k] = sep /\ \A j \in 1..(k-1) : s[j] # sep
         IN  <<SubSeq(s, 1, i-1)>> \o split(SubSeq(s, i+1, Len(s)), sep)

Last(q) == q[Len(q)]

\* routes.py: "." + filename.split(".")[-1].lower() if "." in filename else ""
FileExt(filename) ==
    IF Contains(filename, ".")
    THEN <<".">> \o lower(Last(split(filename, ".")))
    ELSE <<>>

\* routes.py: settings.SUPPORTED_EXTENSIONS.split(",")
supported_list == split(SUPPORTED_EXTENSIONS, ",")

\* any extension at all accepted
any_extension(file_ext) == file_ext # <<>>

\* routes.py: file_ext in settings.SUPPORTED_EXTENSIONS.split(",")
ExtensionAllowed(file_ext) ==
    \E i \in 1..Len(supported_list) : supported_list[i] = file_ext

\* status codes of the remote server
RemoteStatuses == {200, 404}
Endpoints == {"/convert/file", "/convert/url", "/convert/file/download", "/convert/url/download"}
UploadEndpoints == {"/convert/file", "/convert/file/download"}
UrlEndpoints == {"/convert/url", "/convert/url/download"}

(***************************************************************************)
(* State.                                                                  *)
(***************************************************************************)
VARIABLES
    platform_system,    \* platform.system()
    startup,            \* startup_event: "pending" or "done"
    _global_converter,  \* converter.py:64, None or the cached instance
    instances,          \* DocumentConverter objects constructed so far
    attempts,           \* calls of DocumentConverter() so far, failed ones included
    pc,                 \* each request's position
    endpoint,           \* each request's entry point
    filename,           \* file.filename, or the name download_file_from_url returned
    content,            \* len(content): the bytes in hand (upload read, or download buffer)
    remote,             \* the remote server's response to session.get(url)
    chunks,             \* chunks read from the response so far
    tmp_path,           \* convert_from_bytes: is tmp_path set (TRUE) or still None
    fs,                 \* requests whose temporary file exists in settings.TEMP_DIR
    converter,          \* what get_converter returned to the request's handler
    result,             \* the worker's outcome: "none", "markdown" or "engine_error"
    attempt,            \* _safe_delete_file: the loop variable
    io,                 \* each request's I/O so far, in order
    response,           \* the HTTP response of each finished request
    active,             \* the requests this run sends
    began_while,        \* history: the conversions in progress when the request came in
    tpc, tlocal, tret,  \* SpecThreads: threads inside get_converter
    DOCLING_DEVICE,     \* settings.DOCLING_DEVICE (config.py:38)
    host,               \* what the installed torch and docling do on this host
    ipc,                \* DocumentConverter.__init__: its position
    device,             \* __init__: the local `device`, stored as self.device
    converter_config,   \* __init__: the keys of converter_config
    calls,              \* the DoclingConverter(...) calls made, each by its keywords
    init_raised,        \* the exception that left __init__, or "none"
    url,                \* _extract_filename: its argument url
    headers,            \* _extract_filename: its argument headers, a dict
    extracted,          \* what _extract_filename returned
    xpc,                \* _extract_filename: "idle", "called" or "returned"
    setting,            \* SpecFormats: the value of settings.SUPPORTED_EXTENSIONS
    probe,              \* SpecFormats: the filename put to the extension check
    formats,            \* "formats" of the answer of GET /supported-formats
    accepted,           \* did the extension check let the filename pass
    fpc, vpc            \* "idle", "called" or "returned": the listing, the check

shared == <<platform_system, startup, _global_converter, instances, attempts, active>>
reqvars == <<pc, endpoint, filename, content, remote, chunks, tmp_path, fs,
             converter, result, attempt, io, response, began_while>>
thrvars == <<tpc, tlocal, tret>>
ctorvars == <<DOCLING_DEVICE, host, ipc, device, converter_config, calls, init_raised>>
fnvars == <<url, headers, extracted, xpc>>
fmtvars == <<setting, probe, formats, accepted, fpc, vpc>>
vars == <<shared, reqvars, thrvars, ctorvars, fnvars, fmtvars>>

NoRemote == [status |-> 0, has_length |-> FALSE, content_length |-> 0, body |-> 0]
NoResponse == [status |-> 0, kind |-> "none", cause |-> "", code |-> 0]
NoName == <<>>

\* A run that sends one request draws it from the wide sets below; a run that
\* sends several concurrently draws each from the narrow ones.
Wide == Cardinality(active) = 1

\* file names of uploads and of remote documents
Filenames ==
    IF Wide
    THEN { <<"a",".","p","d","f">>, <<"a",".","P","D","F">>,
           <<"a",".","e","x","e">>, <<"a">> }
    ELSE { <<"a",".","p","d","f">>, <<"a",".","e","x","e">> }

InitState ==
    /\ platform_system \in {"Linux", "Windows"}
    /\ startup = "pending"
    /\ _global_converter = None
    /\ instances = 0
    /\ attempts = 0
    /\ pc = [r \in Req |-> "new"]
    /\ endpoint = [r \in Req |-> "none"]
    /\ filename = [r \in Req |-> NoName]
    /\ content = [r \in Req |-> 0]
    /\ remote = [r \in Req |-> NoRemote]
    /\ chunks = [r \in Req |-> 0]
    /\ tmp_path = [r \in Req |-> FALSE]
    /\ fs = {}
    /\ converter = [r \in Req |-> None]
    /\ result = [r \in Req |-> "none"]
    /\ attempt = [r \in Req |-> 0]
    /\ io = [r \in Req |-> <<>>]
    /\ response = [r \in Req |-> NoResponse]
    /\ began_while = [r \in Req |-> {}]
    /\ tpc = [t \in Threads |-> "idle"]
    /\ tlocal = [t \in Threads |-> None]
    /\ tret = [t \in Threads |-> None]

cpu == <<"c","p","u">>
cuda == <<"c","u","d","a">>
cuda0 == <<"c","u","d","a",":","0">>

\* no constructor is under way: its variables rest
NotConstructing ==
    /\ DOCLING_DEVICE = cpu
    /\ host = [import_torch |-> "ok", cuda |-> "False", options |-> "ok",
               with_options |-> "ok", with_device |-> "ok", default |-> "ok"]
    /\ ipc = "idle"
    /\ device = <<>>
    /\ converter_config = {}
    /\ calls = <<>>
    /\ init_raised = "none"

\* a dict without keys
EmptyDict == [k \in {} |-> <<>>]

\* no call of _extract_filename is looked at: its variables rest
NotExtracting ==
    /\ url = <<>>
    /\ headers = EmptyDict
    /\ extracted = <<>>
    /\ xpc = "idle"

\* the allow-list is the default one and is not looked at by itself
DefaultFormats ==
    /\ setting = SUPPORTED_EXTENSIONS
    /\ probe = <<>>
    /\ formats = <<>>
    /\ accepted = FALSE
    /\ fpc = "idle"
    /\ vpc = "idle"

\* the server with all of Req in flight
Init == InitState /\ active = Req /\ NotConstructing /\ NotExtracting /\ DefaultFormats

\* the server with a single request
InitOne ==
    /\ InitState /\ (\E r \in Req : active = {r})
    /\ NotConstructing /\ NotExtracting /\ DefaultFormats

(***************************************************************************)
(* get_converter (converter.py:297-310).                                   *)
(***************************************************************************)
\* get_converter without the test of the cache: every call constructs
get_converter_uncached(g, n, built) ==
    IF built
    THEN [raised |-> FALSE, value |-> n + 1, global |-> n + 1, instances |-> n + 1, called |-> 1]
    ELSE [raised |-> TRUE, value |-> None, global |-> g, instances |-> n, called |-> 1]

\* a construction that raised remembered in the global: later calls construct no more
get_converter_caches_failure(g, n, built) ==
    IF g = None
    THEN IF built
         THEN [raised |-> FALSE, value |-> n + 1, global |-> n + 1, instances |-> n + 1, called |-> 1]
         ELSE [raised |-> TRUE, value |-> None, global |-> 0 - 1, instances |-> n, called |-> 1]
    ELSE [raised |-> g < 0, value |-> IF g < 0 THEN None ELSE g, global |-> g,
          instances |-> n, called |-> 0]

\* One whole call, as a coroutine of the event loop makes it (the function holds no
\* await): g is _global_converter, n the instances constructed so far, built says
\* whether DocumentConverter() returns (TRUE) or raises (FALSE).
get_converter(g, n, built) ==
    IF g = None
    THEN IF built
         THEN [raised |-> FALSE, value |-> n + 1, global |-> n + 1, instances |-> n + 1, called |-> 1]
         ELSE [raised |-> TRUE, value |-> None, global |-> g, instances |-> n, called |-> 1]
    ELSE [raised |-> FALSE, value |-> g, global |-> g, instances |-> n, called |-> 0]

\* main.py:64-69: startup_event pre-initialises the converter and swallows a failure
startup_event ==
    /\ startup = "pending"
    /\ \E built \in BOOLEAN :
        LET c == get_converter(_global_converter, instances, built)
        IN  /\ _global_converter' = c.global
            /\ instances' = c.instances
            /\ attempts' = attempts + c.called
    /\ startup' = "done"
    /\ UNCHANGED <<platform_system, active, reqvars, thrvars, ctorvars, fnvars, fmtvars>>

(***************************************************************************)
(* Responses and the exceptions they carry.  An exception is [cause, code]; *)
(* a handler's 500 response wraps it: detail = "转换失败: " + str(e).        *)
(***************************************************************************)
Exc(cause, code) == [cause |-> cause, code |-> code]

\* routes.py:61-65, 99-103, 158-162, 212-216
ServerError(e) == [status |-> 500, kind |-> "convert_failed", cause |-> e.cause, code |-> e.code]
\* routes.py:36-39, 82-85, 118-121, 181-184
UnsupportedFormat == [status |-> 400, kind |-> "unsupported_format", cause |-> "", code |-> 0]
\* routes.py:46-49, 128-131
FileTooLarge == [status |-> 400, kind |-> "file_too_large", cause |-> "", code |-> MAX_FILE_SIZE]
\* routes.py:56-60, 91-96 (ConvertResponse) and 150-157, 202-209 (Response)
Success(ep) ==
    [status |-> 200,
     kind |-> IF ep \in {"/convert/file", "/convert/url"} THEN "json" ELSE "markdown_file",
     cause |-> "", code |-> 0]

\* the requests whose convert call a worker thread is executing
Converting == {q \in Req : pc[q] = "converting"}

\* the convert call made on the event-loop thread itself instead of in the executor
loop_runs_convert == \A q \in Req : pc[q] \notin {"unlink", "sleep", "converting"}

\* no coroutine is inside blocking code on the event-loop thread
LoopFree == \A q \in Req : pc[q] \notin {"unlink", "sleep"}

Append2(r, evs) == [io EXCEPT ![r] = @ \o evs]

\* the handler of request r ends with response resp, after the I/O events evs
Respond(r, evs, resp) ==
    /\ pc' = [pc EXCEPT ![r] = "done"]
    /\ io' = Append2(r, evs)
    /\ response' = [response EXCEPT ![r] = resp]

(***************************************************************************)
(* convert_from_bytes, up to its await (converter.py:195-216), entered from *)
(* a handler right after get_converter (routes.py:53-54, 88-89, 135-136,   *)
(* 187-188): no await lies between, so it is one step of the event loop.   *)
(***************************************************************************)
StageOutcomes == {"ok", "create_error", "write_error"}

\* the cleanup written after the await instead of in a finally block: skipped on raise
cleans_on_return_only(path_set, exists, raised) == path_set /\ exists /\ ~raised

\* converter.py:219-222: the finally block runs when the try body returned and when
\* it raised alike, and deletes when tmp_path is set and the file exists
finally_cleans(path_set, exists, raised) == path_set /\ exists

\* what the handler answers once convert_from_bytes is over: the exception in
\* flight (one raised inside the finally block replaces the try body's), else
\* the markdown
HandlerResponse(ep, res, cleanup_raised) ==
    IF cleanup_raised THEN ServerError(Exc("cleanup_error", 0))
    ELSE IF res = "markdown" THEN Success(ep)
    ELSE ServerError(Exc(res, 0))

StartConversion(r, before) ==
    \E built \in BOOLEAN, stage \in StageOutcomes :
        LET c == get_converter(_global_converter, instances, built)
            pre == before \o <<<<"get_converter", 0>>>>
        IN  /\ _global_converter' = c.global
            /\ instances' = c.instances
            /\ attempts' = attempts + c.called
            /\ converter' = [converter EXCEPT ![r] = c.value]
            /\ attempt' = attempt
            /\ IF c.raised
               THEN \* DocumentConverter() raised: the handler's except answers 500
                    /\ Respond(r, pre, ServerError(Exc("construct_error", 0)))
                    /\ UNCHANGED <<tmp_path, fs, result>>
               ELSE CASE stage = "create_error" ->
                         \* NamedTemporaryFile raises: no file, tmp_path is None
                         /\ result' = [result EXCEPT ![r] = "stage_error"]
                         /\ Respond(r, pre, HandlerResponse(endpoint[r], "stage_error", FALSE))
                         /\ UNCHANGED <<tmp_path, fs>>
                    [] stage = "write_error" ->
                         \* write or flush raises: the with block closes the file
                         \* (delete=False) and tmp_path is still None in the finally
                         /\ result' = [result EXCEPT ![r] = "stage_error"]
                         /\ fs' = fs \cup {r}
                         /\ UNCHANGED tmp_path
                         /\ IF finally_cleans(tmp_path[r], TRUE, TRUE)
                            THEN /\ pc' = [pc EXCEPT ![r] = "unlink"]
                                 /\ io' = Append2(r, pre \o <<<<"create", 0>>, <<"close", 0>>>>)
                                 /\ UNCHANGED response
                            ELSE Respond(r, pre \o <<<<"create", 0>>, <<"close", 0>>>>,
                                         HandlerResponse(endpoint[r], "stage_error", FALSE))
                    [] stage = "ok" ->
                         /\ fs' = fs \cup {r}
                         /\ tmp_path' = [tmp_path EXCEPT ![r] = TRUE]
                         /\ io' = Append2(r, pre \o <<<<"create", 0>>, <<"write", 0>>,
                                    <<"flush", 0>>, <<"close", 0>>, <<"submit", 0>>>>)
                         /\ pc' = [pc EXCEPT ![r] = "queued"]
                         /\ UNCHANGED <<response, result>>

(***************************************************************************)
(* The upload endpoints (routes.py:26-65 and 106-162).                     *)
(***************************************************************************)
\* len(content) of the uploads the model sends
UploadLens == IF Wide THEN {1, MAX_FILE_SIZE, MAX_FILE_SIZE + 1} ELSE {1, MAX_FILE_SIZE + 1}

\* the upload limit itself taken for too large
too_large_at_limit(n) == n >= MAX_FILE_SIZE

\* routes.py:45, 127: len(content) > settings.MAX_FILE_SIZE
TooLarge(n) == n > MAX_FILE_SIZE

\* the handler up to `await file.read()`: the extension check
convert_file(r) ==
    /\ startup = "done" /\ LoopFree
    /\ r \in active
    /\ pc[r] = "new"
    /\ began_while' = [began_while EXCEPT ![r] = Converting]
    /\ \E ep \in UploadEndpoints, name \in Filenames :
        /\ endpoint' = [endpoint EXCEPT ![r] = ep]
        /\ filename' = [filename EXCEPT ![r] = name]
        /\ IF ~ExtensionAllowed(FileExt(name))
           THEN Respond(r, <<>>, UnsupportedFormat)
           ELSE /\ pc' = [pc EXCEPT ![r] = "await_read"]
                /\ UNCHANGED <<io, response>>
    /\ UNCHANGED <<shared, content, remote, chunks, tmp_path, fs, converter, result,
                   attempt, thrvars, ctorvars, fnvars, fmtvars>>

\* file.read() returned: the size check, get_converter, convert_from_bytes
file_read(r) ==
    /\ LoopFree
    /\ pc[r] = "await_read"
    /\ \E n \in UploadLens :
        /\ content' = [content EXCEPT ![r] = n]
        /\ IF TooLarge(n)
           THEN /\ Respond(r, <<<<"read", n>>>>, FileTooLarge)
                /\ UNCHANGED <<_global_converter, instances, attempts, converter,
                               tmp_path, fs, result, attempt>>
           ELSE StartConversion(r, <<<<"read", n>>>>)
    /\ UNCHANGED <<platform_system, startup, active, endpoint, filename, remote, chunks,
                   thrvars, began_while, ctorvars, fnvars, fmtvars>>

(***************************************************************************)
(* download_file_from_url (download.py:13-59).                             *)
(***************************************************************************)
\* only server errors taken for a failed fetch
status_not_5xx(status) == status < 500

\* download.py:32
StatusOk(status) == status = 200

\* the announced length compared with the upload limit instead of the download limit
header_over_upload_limit(has_length, content_length) ==
    has_length /\ content_length > MAX_FILE_SIZE

\* download.py:36-37: content_length and int(content_length) > MAX_DOWNLOAD_SIZE
\* (aiohttp hands over only a numeric Content-Length)
HeaderTooLarge(has_length, content_length) ==
    has_length /\ content_length > MAX_DOWNLOAD_SIZE

\* the streamed size never checked
overflow_unchecked(len) == FALSE

\* the limit itself taken for an overflow
overflow_at_limit(len) == len >= MAX_DOWNLOAD_SIZE

\* download.py:46, checked after `content += chunk`
Overflow(len) == len > MAX_DOWNLOAD_SIZE

SizeLimit == Exc("size_limit", MAX_DOWNLOAD_SIZE)

\* what the remote server may announce and send
ContentLengths ==
    IF Wide THEN {ChunkSize, MAX_DOWNLOAD_SIZE, MAX_DOWNLOAD_SIZE + 1} ELSE {ChunkSize}
BodyLens ==
    IF Wide
    THEN {0, ChunkSize, MAX_DOWNLOAD_SIZE, MAX_DOWNLOAD_SIZE + 1,
          MAX_DOWNLOAD_SIZE + ChunkSize + 1}
    ELSE {ChunkSize}

Min(a, b) == IF a < b THEN a ELSE b

\* iter_chunked(8192) yields what has arrived, at most ChunkSize bytes: a full
\* chunk (or the rest of the body), or a single byte while the rest of the body
\* still fits the chunks that remain
ChunkLens(left, read) ==
    {Min(left, ChunkSize)} \cup
    {n \in {1} : Wide /\ left - n <= (MaxChunks - read - 1) * ChunkSize}

\* the URL handlers up to `await session.get(url)` (routes.py:75-77, 174-176)
convert_from_url(r) ==
    /\ startup = "done" /\ LoopFree
    /\ r \in active
    /\ pc[r] = "new"
    /\ began_while' = [began_while EXCEPT ![r] = Converting]
    /\ \E ep \in UrlEndpoints : endpoint' = [endpoint EXCEPT ![r] = ep]
    /\ pc' = [pc EXCEPT ![r] = "await_get"]
    /\ io' = Append2(r, <<<<"get", 0>>>>)
    /\ UNCHANGED <<shared, filename, content, remote, chunks, tmp_path, fs, converter,
                   result, attempt, response, thrvars, ctorvars, fnvars, fmtvars>>

\* the response headers arrived (download.py:30-43): status and Content-Length checks
download_headers(r) ==
    /\ LoopFree
    /\ pc[r] = "await_get"
    /\ \E status \in RemoteStatuses, has_length \in BOOLEAN,
          content_length \in ContentLengths, body \in BodyLens :
        /\ has_length \/ content_length = ChunkSize
        /\ Wide \/ ~has_length
        /\ body <= MaxChunks * ChunkSize
        /\ remote' = [remote EXCEPT ![r] =
                [status |-> status, has_length |-> has_length,
                 content_length |-> IF has_length THEN content_length ELSE 0,
                 body |-> body]]
        /\ IF ~StatusOk(status)
           THEN Respond(r, <<>>, ServerError(Exc("http_status", status)))
           ELSE IF HeaderTooLarge(has_length, content_length)
           THEN Respond(r, <<>>, ServerError(SizeLimit))
           ELSE /\ pc' = [pc EXCEPT ![r] = "await_chunk"]
                /\ UNCHANGED <<io, response>>
    /\ UNCHANGED <<shared, endpoint, filename, content, chunks, tmp_path, fs, converter,
                   result, attempt, thrvars, began_while, ctorvars, fnvars, fmtvars>>

\* one turn of `async for chunk in response.content.iter_chunked(8192)` (download.py:44-49)
download_chunk(r) ==
    /\ LoopFree
    /\ pc[r] = "await_chunk"
    /\ content[r] < remote[r].body
    /\ \E n \in ChunkLens(remote[r].body - content[r], chunks[r]) :
        /\ content' = [content EXCEPT ![r] = @ + n]
        /\ chunks' = [chunks EXCEPT ![r] = @ + 1]
        /\ IF Overflow(content[r] + n)
           THEN Respond(r, <<<<"chunk", n>>>>, ServerError(SizeLimit))
           ELSE /\ io' = Append2(r, <<<<"chunk", n>>>>)
                /\ UNCHANGED <<pc, response>>
    /\ UNCHANGED <<shared, endpoint, filename, remote, tmp_path, fs, converter,
                   result, attempt, thrvars, began_while, ctorvars, fnvars, fmtvars>>

\* the body ended (download.py:51-54): _extract_filename(url, headers) names the
\* document, the response and the session are closed
download_end(r) ==
    /\ LoopFree
    /\ pc[r] = "await_chunk"
    /\ content[r] = remote[r].body
    /\ \E name \in Filenames : filename' = [filename EXCEPT ![r] = name]
    /\ pc' = [pc EXCEPT ![r] = "fetched"]
    /\ UNCHANGED <<shared, endpoint, content, remote, chunks, tmp_path, fs, converter,
                   result, attempt, io, response, thrvars, began_while, ctorvars, fnvars, fmtvars>>

\* aiohttp.ClientError or asyncio.TimeoutError while waiting (download.py:56-59)
download_fails(r) ==
    /\ LoopFree
    /\ pc[r] \in {"await_get", "await_chunk"}
    /\ \E cause \in {"client_error", "timeout"} :
        Respond(r, <<>>, ServerError(Exc(cause, 0)))
    /\ UNCHANGED <<shared, endpoint, filename, content, remote, chunks, tmp_path, fs,
                   converter, result, attempt, thrvars, began_while, ctorvars, fnvars, fmtvars>>

\* the HTTPException caught by `except Exception` and wrapped like any other error
http_exception_wrapped(resp) == ServerError(Exc("http_exception", resp.status))

\* routes.py:97-98, 210-211: `except HTTPException: raise` hands an HTTPException
\* raised inside the try block on as it is
reraise_http_exception(resp) == resp

\* download_file_from_url returned (routes.py:79-89, 178-188): the extension
\* check, get_converter, convert_from_bytes
url_downloaded(r) ==
    /\ LoopFree
    /\ pc[r] = "fetched"
    /\ IF ~ExtensionAllowed(FileExt(filename[r]))
       THEN /\ Respond(r, <<>>, reraise_http_exception(UnsupportedFormat))
            /\ UNCHANGED <<_global_converter, instances, attempts, converter,
                           tmp_path, fs, result, attempt>>
       ELSE StartConversion(r, <<>>)
    /\ UNCHANGED <<platform_system, startup, active, endpoint, filename, content, remote,
                   chunks, thrvars, began_while, ctorvars, fnvars, fmtvars>>

(***************************************************************************)
(* The worker thread: loop.run_in_executor(None, self._convert_file, path) *)
(* (converter.py:212-216, 224-245).                                        *)
(***************************************************************************)
\* a thread of the default executor picks the job up and calls converter.convert
worker_start(r) ==
    /\ pc[r] = "queued"
    /\ pc' = [pc EXCEPT ![r] = "converting"]
    /\ io' = Append2(r, <<<<"convert_begin", 0>>>>)
    /\ UNCHANGED <<shared, endpoint, filename, content, remote, chunks, tmp_path, fs,
                   converter, result, attempt, response, thrvars, began_while, ctorvars, fnvars, fmtvars>>

\* convert and export_to_markdown return, or the engine raises; on Windows the
\* worker sleeps 0.1 s before it returns the markdown
worker_end(r) ==
    /\ pc[r] = "converting"
    /\ \E res \in {"markdown", "engine_error"} :
        /\ result' = [result EXCEPT ![r] = res]
        /\ io' = Append2(r, <<<<"convert_end", 0>>>> \o
                    IF res = "markdown" /\ platform_system = "Windows"
                    THEN <<<<"worker_sleep", 1>>>> ELSE <<>>)
    /\ pc' = [pc EXCEPT ![r] = "worker_done"]
    /\ UNCHANGED <<shared, endpoint, filename, content, remote, chunks, tmp_path, fs,
                   converter, attempt, response, thrvars, began_while, ctorvars, fnvars, fmtvars>>

(***************************************************************************)
(* Back on the event loop: the finally block of convert_from_bytes and     *)
(* _safe_delete_file (converter.py:219-222, 247-276), which blocks the     *)
(* loop thread until it returns.                                           *)
(***************************************************************************)
\* converter.py:266: time.sleep(retry_delay * (attempt + 1)), attempt counting from 0
backoff(n) == retry_delay * (n + 1)

\* one more turn of the retry loop than max_retries
unlink_failed_retries_on(n) == IF n < max_retries THEN "sleep" ELSE "give_up"

\* the last failed attempt re-raises instead of giving up silently
unlink_failed_reraises(n) == IF n < max_retries - 1 THEN "sleep" ELSE "raise"

\* converter.py:263-276: what a failed os.unlink leads to, attempt counting from 0
unlink_failed(n) == IF n < max_retries - 1 THEN "sleep" ELSE "give_up"

\* the exhausted deletion logged nowhere
never_logs(system) == FALSE

\* converter.py:267-276: after the last failed attempt, `pass` when
\* platform.system() == 'Windows', logging.warning otherwise
logs_failure(system) == system # "Windows"

\* the coroutine going on while the worker is still inside the call
resumes_unawaited(p) == p \in {"converting", "worker_done"}

\* converter.py:212-216: `await loop.run_in_executor(...)` resumes the coroutine
\* once the worker's call has returned or raised
future_done(p) == p = "worker_done"

\* the awaited future is done: the finally block
convert_resumes(r) ==
    /\ LoopFree
    /\ future_done(pc[r])
    /\ IF finally_cleans(tmp_path[r], r \in fs, result[r] # "markdown")
       THEN \* _safe_delete_file is entered, the file exists (converter.py:256)
            /\ pc' = [pc EXCEPT ![r] = "unlink"]
            /\ attempt' = [attempt EXCEPT ![r] = 0]
            /\ UNCHANGED <<io, response>>
       ELSE /\ Respond(r, <<>>, HandlerResponse(endpoint[r], result[r], FALSE))
            /\ UNCHANGED attempt
    /\ UNCHANGED <<shared, endpoint, filename, content, remote, chunks, tmp_path, fs,
                   converter, result, thrvars, began_while, ctorvars, fnvars, fmtvars>>

\* one os.unlink(file_path) of the retry loop (converter.py:259-276)
safe_delete_attempt(r) ==
    /\ pc[r] = "unlink"
    /\ \/ \* the file is deleted: return, and the handler answers
          /\ fs' = fs \ {r}
          /\ Respond(r, <<<<"unlink", attempt[r] + 1>>>>,
                     HandlerResponse(endpoint[r], result[r], FALSE))
       \/ \* OSError or PermissionError
          /\ UNCHANGED fs
          /\ CASE unlink_failed(attempt[r]) = "sleep" ->
                    \* time.sleep(retry_delay * (attempt + 1)), in tenths of a second
                    /\ pc' = [pc EXCEPT ![r] = "sleep"]
                    /\ io' = Append2(r, <<<<"unlink_failed", attempt[r] + 1>>,
                                          <<"sleep", backoff(attempt[r])>>>>)
                    /\ UNCHANGED response
               [] unlink_failed(attempt[r]) = "give_up" ->
                    \* logged unless on Windows, not raised
                    Respond(r, <<<<"unlink_failed", attempt[r] + 1>>>> \o
                               (IF logs_failure(platform_system)
                                THEN <<<<"log_warning", 0>>>> ELSE <<>>),
                            HandlerResponse(endpoint[r], result[r], FALSE))
               [] OTHER ->
                    \* the error leaves _safe_delete_file and the finally block
                    Respond(r, <<<<"unlink_failed", attempt[r] + 1>>>>,
                            HandlerResponse(endpoint[r], result[r], TRUE))
    /\ UNCHANGED <<shared, endpoint, filename, content, remote, chunks, tmp_path,
                   converter, result, attempt, thrvars, began_while, ctorvars, fnvars, fmtvars>>

\* time.sleep returned: the next turn of `for attempt in range(max_retries)`
safe_delete_wakes(r) ==
    /\ pc[r] = "sleep"
    /\ pc' = [pc EXCEPT ![r] = "unlink"]
    /\ attempt' = [attempt EXCEPT ![r] = @ + 1]
    /\ UNCHANGED <<shared, endpoint, filename, content, remote, chunks, tmp_path, fs,
                   converter, result, io, response, thrvars, began_while, ctorvars, fnvars, fmtvars>>

(***************************************************************************)
(* The server: startup, then requests as they come.                        *)
(***************************************************************************)
Next ==
    \/ startup_event
    \/ \E r \in Req :
        \/ convert_file(r)
        \/ file_read(r)
        \/ convert_from_url(r)
        \/ download_headers(r)
        \/ download_chunk(r)
        \/ download_end(r)
        \/ download_fails(r)
        \/ url_downloaded(r)
        \/ worker_start(r)
        \/ worker_end(r)
        \/ convert_resumes(r)
        \/ safe_delete_attempt(r)
        \/ safe_delete_wakes(r)

Spec == Init /\ [][Next]_vars

\* one request, drawn from the wide sets
SpecOne == InitOne /\ [][Next]_vars

(***************************************************************************)
(* get_converter called from parallel threads.  The function takes no lock: *)
(* between the test of line 308, the call DocumentConverter(), the store   *)
(* into the global of line 309 and the load of line 310 the interpreter    *)
(* may switch threads (the constructor imports modules and loads models).  *)
(***************************************************************************)
\* converter.py:308: if _global_converter is None
thread_tests(t) ==
    /\ tpc[t] = "idle"
    /\ tpc' = [tpc EXCEPT ![t] = IF _global_converter = None THEN "construct" ELSE "return"]
    /\ UNCHANGED <<shared, reqvars, tlocal, tret, ctorvars, fnvars, fmtvars>>

\* converter.py:309, the right-hand side: DocumentConverter() returns or raises
thread_constructs(t) ==
    /\ tpc[t] = "construct"
    /\ attempts' = attempts + 1
    /\ \/ /\ instances' = instances + 1
          /\ tlocal' = [tlocal EXCEPT ![t] = instances + 1]
          /\ tpc' = [tpc EXCEPT ![t] = "store"]
       \/ /\ tpc' = [tpc EXCEPT ![t] = "raised"]
          /\ UNCHANGED <<instances, tlocal, ctorvars, fnvars, fmtvars>>
    /\ UNCHANGED <<platform_system, startup, _global_converter, active, reqvars, tret, ctorvars, fnvars, fmtvars>>

\* converter.py:309, the assignment to the global
thread_stores(t) ==
    /\ tpc[t] = "store"
    /\ _global_converter' = tlocal[t]
    /\ tpc' = [tpc EXCEPT ![t] = "return"]
    /\ UNCHANGED <<platform_system, startup, instances, attempts, active, reqvars,
                   tlocal, tret, ctorvars, fnvars, fmtvars>>

\* converter.py:310: return _global_converter
thread_returns(t) ==
    /\ tpc[t] = "return"
    /\ tret' = [tret EXCEPT ![t] = _global_converter]
    /\ tpc' = [tpc EXCEPT ![t] = "done"]
    /\ UNCHANGED <<shared, reqvars, tlocal, ctorvars, fnvars, fmtvars>>

NextThreads ==
    \E t \in Threads :
        \/ thread_tests(t)
        \/ thread_constructs(t)
        \/ thread_stores(t)
        \/ thread_returns(t)

SpecThreads == Init /\ [][NextThreads]_vars

(***************************************************************************)
(* DocumentConverter.__init__ (converter.py:70-162), a step at a time, on  *)
(* a host described by what its libraries do: import torch, the call       *)
(* torch.cuda.is_available(), the import of PipelineOptions, and the three *)
(* ways to call DoclingConverter each return ("ok", "True", "False") or    *)
(* raise the exception named.  _create_vllm_model and _verify_device_usage *)
(* catch every exception themselves and do not change the path taken.      *)
(***************************************************************************)
Selectors == {cpu, cuda, cuda0}

Hosts ==
    { h \in [import_torch : {"ok", "ImportError", "OSError"},
             cuda : {"True", "False", "RuntimeError"},
             options : {"ok", "ImportError", "AttributeError"},
             with_options : {"ok", "TypeError", "ValueError", "RuntimeError"},
             with_device : {"ok", "TypeError", "ValueError", "RuntimeError"},
             default : {"ok", "RuntimeError"}] :
        h.import_torch # "ok" => h.cuda = "False" }

InitConstructor ==
    /\ InitState
    /\ active = {}
    /\ DOCLING_DEVICE \in Selectors
    /\ host \in Hosts
    /\ ipc = "start"
    /\ device = <<>>
    /\ converter_config = {}
    /\ calls = <<>>
    /\ init_raised = "none"
    /\ NotExtracting
    /\ DefaultFormats

\* str.startswith
startswith(s, prefix) ==
    Len(s) >= Len(prefix) /\ SubSeq(s, 1, Len(prefix)) = prefix

\* converter.py:77-92: the device this host gets for the selector, or the
\* exception the probing lets through; `except ImportError` is its only handler
resolve_device(selector, h) ==
    IF ~startswith(selector, cuda)
    THEN [exc |-> "none", device |-> selector]
    ELSE IF h.import_torch = "ImportError"
    THEN [exc |-> "none", device |-> cpu]
    ELSE IF h.import_torch # "ok"
    THEN [exc |-> h.import_torch, device |-> <<>>]
    ELSE IF h.cuda = "True"
    THEN [exc |-> "none", device |-> selector]
    ELSE IF h.cuda = "False"
    THEN [exc |-> "none", device |-> cpu]
    ELSE [exc |-> h.cuda, device |-> <<>>]

\* converter.py:157: except (TypeError, ValueError)
construct_caught(exc) == exc \in {"TypeError", "ValueError"}

\* converter.py:77-95: device selection, self.device = device
select_device ==
    /\ ipc = "start"
    /\ LET d == resolve_device(DOCLING_DEVICE, host)
       IN  /\ device' = d.device
           /\ init_raised' = d.exc
           /\ ipc' = IF d.exc = "none" THEN "options" ELSE "failed"
    /\ UNCHANGED <<shared, reqvars, thrvars, DOCLING_DEVICE, host, converter_config, calls, fnvars, fmtvars>>

\* converter.py:103-143: way 1, PipelineOptions; ImportError and AttributeError
\* leave converter_config empty
build_pipeline_options ==
    /\ ipc = "options"
    /\ converter_config' = IF host.options = "ok" THEN {"pipeline_options"} ELSE {}
    /\ ipc' = "device_param"
    /\ UNCHANGED <<shared, reqvars, thrvars, DOCLING_DEVICE, host, device, calls, init_raised, fnvars, fmtvars>>

\* converter.py:145-148: way 2, the device keyword, only without pipeline_options
device_param ==
    /\ ipc = "device_param"
    /\ converter_config' = IF "pipeline_options" \notin converter_config
                           THEN converter_config \cup {"device"}
                           ELSE converter_config
    /\ ipc' = "construct"
    /\ UNCHANGED <<shared, reqvars, thrvars, DOCLING_DEVICE, host, device, calls, init_raised, fnvars, fmtvars>>

\* converter.py:150-157: DoclingConverter(**converter_config)
construct ==
    /\ ipc = "construct"
    /\ calls' = Append(calls, converter_config)
    /\ LET outcome == IF "pipeline_options" \in converter_config
                      THEN host.with_options ELSE host.with_device
       IN  IF outcome = "ok"
           THEN ipc' = "built" /\ UNCHANGED init_raised
           ELSE IF construct_caught(outcome)
           THEN ipc' = "default" /\ UNCHANGED init_raised
           ELSE ipc' = "failed" /\ init_raised' = outcome
    /\ UNCHANGED <<shared, reqvars, thrvars, DOCLING_DEVICE, host, device, converter_config, fnvars, fmtvars>>

\* converter.py:158-162: DoclingConverter() inside the except block
default_construct ==
    /\ ipc = "default"
    /\ calls' = Append(calls, {})
    /\ IF host.default = "ok"
       THEN ipc' = "built" /\ UNCHANGED init_raised
       ELSE ipc' = "failed" /\ init_raised' = host.default
    /\ UNCHANGED <<shared, reqvars, thrvars, DOCLING_DEVICE, host, device, converter_config, fnvars, fmtvars>>

NextConstructor ==
    \/ select_device
    \/ build_pipeline_options
    \/ device_param
    \/ construct
    \/ default_construct

SpecConstructor == InitConstructor /\ [][NextConstructor]_vars

(***************************************************************************)
(* _extract_filename (download.py:62-87), a pure function of the URL and   *)
(* the response headers, on strings as sequences of characters.  The       *)
(* handlers above take its result from Filenames.                          *)
(***************************************************************************)
filename_eq == <<"f","i","l","e","n","a","m","e","=">>
document == <<"d","o","c","u","m","e","n","t">>
quotes == {"\"", "'"}

\* s.find(sub) + 1: the first place where sub occurs in s, 0 when it does not
find(s, sub) ==
    LET at == {i \in 1..(Len(s) - Len(sub) + 1) : SubSeq(s, i, i + Len(sub) - 1) = sub}
    IN  IF at = {} THEN 0 ELSE CHOOSE i \in at : \A j \in at : i <= j

\* sub in s
Includes(s, sub) == find(s, sub) # 0

\* s.split(sep) for a separator of any length
RECURSIVE split_str(_, _)
split_str(s, sep) ==
    IF ~Includes(s, sep) THEN <<s>>
    ELSE <<SubSeq(s, 1, find(s, sep) - 1)>> \o
         split_str(SubSeq(s, find(s, sep) + Len(sep), Len(s)), sep)

\* s.strip(chars): the characters of chars removed from both ends
RECURSIVE strip(_, _)
strip(s, chars) ==
    IF s = <<>> THEN s
    ELSE IF s[1] \in chars THEN strip(Tail(s), chars)
    ELSE IF s[Len(s)] \in chars THEN strip(SubSeq(s, 1, Len(s) - 1), chars)
    ELSE s

\* headers.get(key, default)
dict_get(d, key, default) == IF key \in DOMAIN d THEN d[key] ELSE default

\* the least place at or after from where s holds a character of stops, or Len(s) + 1
upto(s, from, stops) ==
    LET at == {i \in from..Len(s) : s[i] \in stops}
    IN  IF at = {} THEN Len(s) + 1 ELSE CHOOSE i \in at : \A j \in at : i <= j

\* urlparse(url).path for a URL scheme://netloc/path?query#fragment that has no
\* ";" in its path: what lies between the end of the netloc and the first "?" or "#"
urlparse_path(u) ==
    LET colon == find(u, <<":", "/", "/">>)
        netloc == IF colon = 0 THEN 1 ELSE colon + 3
        start == IF colon = 0 THEN 1 ELSE upto(u, netloc, {"/", "?", "#"})
    IN  SubSeq(u, start, upto(u, start, {"?", "#"}) - 1)

\* Path(path).name: the last component of the path, empty components and "."
\* components dropped; empty for "" and for "/"
path_name(path) ==
    LET parts == SelectSeq(split(path, "/"), LAMBDA c : c # <<>> /\ c # <<".">>)
    IN  IF parts = <<>> THEN <<>> ELSE Last(parts)

\* download.py:62-87
_extract_filename(u, h) ==
    LET content_disposition == dict_get(h, "Content-Disposition", <<>>)
        from_header == strip(split_str(content_disposition, filename_eq)[2], quotes)
        name == path_name(urlparse_path(u))
    IN  IF Includes(content_disposition, filename_eq) /\ from_header # <<>>
        THEN from_header
        ELSE IF name # <<>> THEN name
        ELSE document

\* the URLs the function is called with: http://x and up to MaxUrlRest characters
UrlChars == {"/", "a", ".", "?"}
Urls ==
    { <<"h", ":", "/", "/", "x">> \o rest :
        rest \in UNION {[1..n -> UrlChars] : n \in 0..MaxUrlRest} }

\* the Content-Disposition values: a disposition before the parameter or none,
\* the value quoted or bare, a further parameter behind it or none
Dispositions ==
    { <<"x">> } \cup
    { prefix \o filename_eq \o q1 \o value \o q2 \o suffix :
        prefix \in {<<>>, <<"x", ";", " ">>},
        q1 \in {<<>>, <<"\"">>, <<"'">>},
        value \in {<<>>, <<"a">>, <<"a", ".", "p", "d", "f">>},
        q2 \in {<<>>, <<"\"">>, <<"'">>},
        suffix \in {<<>>, <<";", " ", "s", "=", "1">>} }

HeaderSets ==
    {EmptyDict} \cup {[k \in {"Content-Disposition"} |-> v] : v \in Dispositions}

InitFilename ==
    /\ InitState
    /\ active = {}
    /\ NotConstructing
    /\ url \in Urls
    /\ headers \in HeaderSets
    /\ extracted = <<>>
    /\ xpc = "called"
    /\ DefaultFormats

\* download.py:52: filename = _extract_filename(url, response.headers)
extract_filename ==
    /\ xpc = "called"
    /\ extracted' = _extract_filename(url, headers)
    /\ xpc' = "returned"
    /\ UNCHANGED <<shared, reqvars, thrvars, ctorvars, url, headers, fmtvars>>

SpecFilename == InitFilename /\ [][extract_filename]_vars

(***************************************************************************)
(* The allow-list as advertised (routes.py:16-23) and as enforced          *)
(* (routes.py:34-35, 80-81, 116-117, 179-180), for values of the setting   *)
(* SUPPORTED_EXTENSIONS other than the default.                            *)
(***************************************************************************)
\* what str.strip() removes
whitespace == {" ", "\t", "\n"}

\* routes.py:19-21: [fmt.strip() for fmt in settings.SUPPORTED_EXTENSIONS.split(",")]
supported_formats(value) ==
    [i \in 1..Len(split(value, ",")) |-> strip(split(value, ",")[i], whitespace)]

\* routes.py:35: file_ext in settings.SUPPORTED_EXTENSIONS.split(",")
extension_in(file_ext, value) ==
    \E i \in 1..Len(split(value, ",")) : split(value, ",")[i] = file_ext

\* the entries a deployment may write into the setting
Entries ==
    { <<".","p","d","f">>, <<" ",".","p","d","f">>, <<".","h","t","m">>,
      <<".","P","D","F">>, <<>> }

\* the values of the setting: the default, one entry, or two joined by a comma
Settings ==
    {SUPPORTED_EXTENSIONS} \cup Entries \cup
    { e1 \o <<",">> \o e2 : e1 \in Entries, e2 \in Entries }

ProbeNames ==
    { <<"a",".","p","d","f">>, <<"a",".","P","D","F">>, <<"a",".","h","t","m">>, <<"a">> }

InitFormats ==
    /\ InitState
    /\ active = {}
    /\ NotConstructing
    /\ NotExtracting
    /\ setting \in Settings
    /\ probe \in ProbeNames
    /\ formats = <<>>
    /\ accepted = FALSE
    /\ fpc = "called"
    /\ vpc = "called"

\* GET /supported-formats (routes.py:16-23)
get_supported_formats ==
    /\ fpc = "called"
    /\ formats' = supported_formats(setting)
    /\ fpc' = "returned"
    /\ UNCHANGED <<shared, reqvars, thrvars, ctorvars, fnvars, setting, probe, accepted, vpc>>

\* the extension check of the convert handlers on the filename probe
check_extension ==
    /\ vpc = "called"
    /\ accepted' = extension_in(FileExt(probe), setting)
    /\ vpc' = "returned"
    /\ UNCHANGED <<shared, reqvars, thrvars, ctorvars, fnvars, setting, probe, formats, fpc>>

NextFormats == get_supported_formats \/ check_extension

SpecFormats == InitFormats /\ [][NextFormats]_vars

(***************************************************************************)
(* Reading a request's I/O.                                                *)
(***************************************************************************)
Has(trace, e) == \E i \in 1..Len(trace) : trace[i][1] = e
Count(trace, e) == Cardinality({i \in 1..Len(trace) : trace[i][1] = e})

(***************************************************************************)
(* The Engine Singleton Lifecycle.                                         *)
(***************************************************************************)
\* C1: when several callers are inside get_converter before the first
\* construction has completed, one DocumentConverter is constructed and every
\* caller that returns receives that one instance.
C1_OneInstanceForAllCallers ==
    /\ instances <= 1
    /\ \A s, t \in Threads :
        tpc[s] = "done" /\ tpc[t] = "done" => tret[s] = tret[t]

\* C2: once get_converter has handed out an instance, every later call (startup
\* or any endpoint, in any order) returns that instance and constructs no other;
\* the cached instance is never reset or replaced.
C2_CachedInstanceKept ==
    /\ [](\A r \in Req : converter[r] # None =>
              converter[r] = _global_converter /\ instances = 1)
    /\ [][_global_converter # None =>
              _global_converter' = _global_converter /\ instances' = instances]_vars

\* two requests of different entry points were served after the first
\* construction, by the same instance
C2_Witness ==
    \E r, q \in Req :
        /\ endpoint[r] \in UploadEndpoints /\ endpoint[q] \in UrlEndpoints
        /\ pc[r] = "done" /\ pc[q] = "done"
        /\ converter[r] # None /\ converter[q] = converter[r]

(***************************************************************************)
(* Temporary Staging.                                                      *)
(***************************************************************************)
\* all max_retries deletion attempts of the request's file failed
DeletionExhausted(r) == Count(io[r], "unlink_failed") = max_retries

\* C3: a convert_from_bytes call that reached the engine's convert step has its
\* staged file removed once the request completes, whether the conversion
\* returned or raised, unless every deletion attempt failed.
C3_StagedFileRemoved ==
    \A r \in Req :
        pc[r] = "done" /\ Has(io[r], "submit") => r \notin fs \/ DeletionExhausted(r)

\* the conversion raised and the staged file is gone when the request is done
C3_Witness ==
    \E r \in Req :
        /\ pc[r] = "done" /\ Has(io[r], "convert_end") /\ result[r] = "engine_error"
        /\ Has(io[r], "unlink") /\ r \notin fs

\* C4: every temporary file convert_from_bytes created is deleted on every exit
\* path, an exception while the bytes are written or flushed included (short of
\* every deletion attempt failing).
C4_EveryCreatedFileReleased ==
    \A r \in Req :
        pc[r] = "done" /\ Has(io[r], "create") => r \notin fs \/ DeletionExhausted(r)

\* C5: failed deletions do not fail the request: after a conversion that
\* returned, the response is the success carrying the markdown, after one that
\* raised it is the 500 of the conversion's own error, never of a deletion.
C5_CleanupNeverFailsRequest ==
    \A r \in Req :
        pc[r] = "done" /\ Has(io[r], "convert_end") =>
            /\ response[r].cause # "cleanup_error"
            /\ result[r] = "markdown" => response[r].status = 200
            /\ result[r] = "engine_error" =>
                  response[r].status = 500 /\ response[r].cause = "engine_error"

\* all five deletion attempts failed and the request still got its markdown
C5_Witness ==
    \E r \in Req :
        /\ pc[r] = "done" /\ DeletionExhausted(r) /\ r \in fs
        /\ result[r] = "markdown" /\ response[r].status = 200

(***************************************************************************)
(* Remote Fetcher.                                                         *)
(***************************************************************************)
Downloads == {r \in Req : endpoint[r] \in UrlEndpoints}

\* download_file_from_url returned (content, filename) to the handler
Returned(r) == r \in Downloads /\ filename[r] # NoName

\* the fetch of r ended with the size-limit error
SizeLimitFailure(r) ==
    pc[r] = "done" /\ response[r] = ServerError(Exc("size_limit", MAX_DOWNLOAD_SIZE))

\* C6, as the spec states it: the download buffer never holds more than
\* MAX_DOWNLOAD_SIZE bytes.
C6_BufferWithinMax ==
    \A r \in Downloads : content[r] <= MAX_DOWNLOAD_SIZE

\* C6, amended: the buffer overshoots MAX_DOWNLOAD_SIZE by at most one chunk:
\* the chunk that takes it over the maximum is appended, and the fetch aborts
\* right after it, whether Content-Length is absent, understated or accurate.
C6_BufferWithinMaxPlusChunk ==
    \A r \in Downloads :
        /\ content[r] <= MAX_DOWNLOAD_SIZE + ChunkSize
        /\ content[r] > MAX_DOWNLOAD_SIZE =>
              /\ SizeLimitFailure(r)
              /\ content[r] - Last(io[r])[2] <= MAX_DOWNLOAD_SIZE

\* no Content-Length, the server streamed past the limit, the buffer holds more
C6_Witness ==
    \E r \in Downloads :
        /\ ~remote[r].has_length /\ remote[r].body > MAX_DOWNLOAD_SIZE
        /\ content[r] > MAX_DOWNLOAD_SIZE /\ SizeLimitFailure(r)

\* C7: the fetch returns only bodies of at most MAX_DOWNLOAD_SIZE bytes, whole;
\* a body over the maximum never reaches staging or conversion, whatever
\* Content-Length says, and the fetch fails with the size-limit error no later
\* than at the first chunk that takes the buffer over the maximum; the size
\* limit fails no body of MAX_DOWNLOAD_SIZE bytes or fewer that announces no more.
C7_OnlyBoundedBodiesReturned ==
    \A r \in Downloads :
        /\ Returned(r) => content[r] = remote[r].body /\ content[r] <= MAX_DOWNLOAD_SIZE
        /\ remote[r].body > MAX_DOWNLOAD_SIZE =>
              /\ ~Returned(r) /\ ~Has(io[r], "create") /\ ~Has(io[r], "convert_begin")
              /\ pc[r] = "done" => response[r].status = 500
        /\ content[r] > MAX_DOWNLOAD_SIZE =>
              /\ SizeLimitFailure(r)
              /\ Last(io[r])[1] = "chunk"
              /\ content[r] - Last(io[r])[2] <= MAX_DOWNLOAD_SIZE
        /\ SizeLimitFailure(r) =>
              \/ content[r] > MAX_DOWNLOAD_SIZE
              \/ remote[r].has_length /\ remote[r].content_length > MAX_DOWNLOAD_SIZE
        /\ ( /\ pc[r] = "await_chunk" /\ content[r] = remote[r].body
             /\ remote[r].body = MAX_DOWNLOAD_SIZE ) => ENABLED download_end(r)

\* an understated Content-Length, the body streamed past the limit: size-limit error
C7_Witness ==
    \E r \in Downloads :
        /\ remote[r].has_length /\ remote[r].content_length < remote[r].body
        /\ remote[r].body > MAX_DOWNLOAD_SIZE
        /\ chunks[r] > 1 /\ SizeLimitFailure(r)

\* a body of exactly MAX_DOWNLOAD_SIZE bytes was returned to the handler
C7_BoundaryAccepted ==
    \E r \in Downloads : Returned(r) /\ content[r] = MAX_DOWNLOAD_SIZE

\* C8: a 200 response that announces a Content-Length over MAX_DOWNLOAD_SIZE
\* fails at once with the size-limit error, before any chunk of the body is read.
C8_AnnouncedTooLargeFailsAtOnce ==
    \A r \in Downloads :
        ( /\ remote[r].status = 200
          /\ remote[r].has_length /\ remote[r].content_length > MAX_DOWNLOAD_SIZE ) =>
            /\ SizeLimitFailure(r)
            /\ chunks[r] = 0 /\ content[r] = 0 /\ ~Has(io[r], "chunk")

\* such a response arrived, with a body behind it
C8_Witness ==
    \E r \in Downloads :
        /\ remote[r].status = 200 /\ remote[r].body > 0
        /\ remote[r].has_length /\ remote[r].content_length > MAX_DOWNLOAD_SIZE
        /\ SizeLimitFailure(r)

(***************************************************************************)
(* Request Pipeline.                                                       *)
(***************************************************************************)
\* C9: on the URL entry points a remote status other than 200 fails the fetch
\* without reading the body, nothing is staged or converted, and the request
\* ends in a 500 whose message carries the remote status code.
C9_Non200IsServerError ==
    \A r \in Downloads :
        remote[r] # NoRemote /\ remote[r].status # 200 =>
            /\ pc[r] = "done"
            /\ response[r].status = 500
            /\ response[r].cause = "http_status" /\ response[r].code = remote[r].status
            /\ io[r] = <<<<"get", 0>>>>
            /\ chunks[r] = 0 /\ r \notin fs /\ converter[r] = None

\* /convert/url/download met a 404
C9_Witness ==
    \E r \in Req :
        /\ endpoint[r] = "/convert/url/download" /\ remote[r].status = 404
        /\ pc[r] = "done" /\ response[r].code = 404

\* file names whose extension the default allow-list does not hold
Disallowed == { <<"a",".","e","x","e">>, <<"a">> }

\* C10, as the spec states it: a request rejected for its extension has done no
\* I/O at all before the rejection, on every entry point.
C10_NoIoBeforeRejection ==
    \A r \in Req : response[r].kind = "unsupported_format" => io[r] = <<>>

\* C10, amended: a request whose extension is not in the allow-list is rejected
\* with 400 and is never read, staged or converted; on the upload entry points
\* no I/O at all precedes the rejection, on the URL entry points the remote
\* fetch (the GET and the chunks of the body) does, and nothing else.
C10_RejectedBeforeStaging ==
    \A r \in Req :
        filename[r] \in Disallowed =>
            /\ \A i \in 1..Len(io[r]) : io[r][i][1] \in {"get", "chunk"}
            /\ r \notin fs /\ converter[r] = None
            /\ r \notin Downloads => io[r] = <<>> /\ pc[r] = "done"
            /\ pc[r] = "done" => response[r].status = 400 /\ response[r].kind = "unsupported_format"

\* a URL request was rejected for its extension, after its download
C10_Witness ==
    \E r \in Downloads :
        /\ filename[r] \in Disallowed /\ response[r].kind = "unsupported_format"
        /\ Has(io[r], "chunk")

Uploads == {r \in Req : endpoint[r] \in UploadEndpoints}

\* C11: on the upload entry points an upload of more than MAX_FILE_SIZE bytes
\* is rejected with 400, and get_converter, staging and the engine's convert
\* are never invoked for it; an upload of exactly MAX_FILE_SIZE bytes is not
\* rejected for its size.
C11_OversizedUploadRejected ==
    \A r \in Uploads :
        /\ content[r] > MAX_FILE_SIZE =>
              /\ pc[r] = "done" /\ response[r].status = 400
              /\ response[r].kind = "file_too_large"
              /\ io[r] = <<<<"read", content[r]>>>>
              /\ converter[r] = None /\ r \notin fs
        /\ content[r] > 0 /\ content[r] <= MAX_FILE_SIZE =>
              /\ response[r].kind # "file_too_large"
              /\ Has(io[r], "get_converter")

\* /convert/file/download rejected an upload one byte over the limit
C11_Witness ==
    \E r \in Req :
        /\ endpoint[r] = "/convert/file/download" /\ content[r] = MAX_FILE_SIZE + 1
        /\ pc[r] = "done" /\ response[r].status = 400

\* an upload of exactly MAX_FILE_SIZE bytes was converted
C11_BoundaryAccepted ==
    \E r \in Uploads : content[r] = MAX_FILE_SIZE /\ response[r].status = 200

\* the request failed validation: its extension is outside the allow-list, or
\* its upload is over MAX_FILE_SIZE
ValidationFailure(r) ==
    \/ filename[r] \in Disallowed
    \/ r \in Uploads /\ content[r] > MAX_FILE_SIZE

\* C12: on all four entry points the failure status follows the failure kind:
\* a validation failure (unsupported extension, oversized upload) ends in 400,
\* also on the URL entry points where it is raised inside the try block; every
\* other failure (download, construction, staging, conversion) ends in 500.
C12_StatusFollowsFailureKind ==
    \A r \in Req :
        pc[r] = "done" =>
            /\ response[r].status \in {200, 400, 500}
            /\ response[r].status = 400 <=> ValidationFailure(r)
            /\ response[r].status = 500 =>
                  response[r].cause \in {"http_status", "size_limit", "client_error",
                      "timeout", "construct_error", "stage_error", "engine_error"}
            /\ response[r].status = 200 => result[r] = "markdown"

\* a URL request rejected for its extension inside the try block got its 400
C12_Witness ==
    \E r \in Downloads :
        /\ pc[r] = "done" /\ filename[r] \in Disallowed
        /\ response[r].status = 400 /\ response[r].kind = "unsupported_format"

\* C13: the engine's convert call runs on a worker thread, not on the event loop:
\* while a request's conversion is in progress every other pending request can
\* take its next step on the loop (come in, be validated, be answered), and the
\* converting request goes on only after its worker has ended the call.
C13_ConversionOffTheLoop ==
    \A r \in Req :
        /\ pc[r] = "converting" =>
              \A q \in active \ {r} :
                  /\ pc[q] = "new" => ENABLED convert_file(q) /\ ENABLED convert_from_url(q)
                  /\ pc[q] = "await_read" => ENABLED file_read(q)
                  /\ pc[q] = "await_get" => ENABLED download_headers(q)
                  /\ pc[q] = "fetched" => ENABLED url_downloaded(q)
        /\ pc[r] \in {"queued", "converting"} =>
              /\ ~ENABLED convert_resumes(r)
              /\ response[r] = NoResponse
              /\ ~Has(io[r], "convert_end")
        /\ pc[r] \in {"worker_done", "unlink", "sleep"} \/ Has(io[r], "unlink")
              => Has(io[r], "convert_end")

\* a request came in while the other's conversion was in progress and has been
\* answered (rejected by validation) while that conversion is still in progress
C13_Witness ==
    \E r \in Req, q \in Req :
        /\ r # q /\ pc[r] = "converting" /\ r \in began_while[q]
        /\ pc[q] = "done" /\ response[q].status = 400

\* C14: the convert calls of the requests in flight are serialized: never are two
\* convert calls executing at once on the same engine instance.
C14_ConvertCallsSerialized ==
    \A r \in Req, q \in Req :
        r # q /\ pc[r] = "converting" /\ pc[q] = "converting"
            => converter[r] # converter[q]

\* the deletion attempts of a request, failed or not, in order
Deletions(trace) ==
    SelectSeq(trace, LAMBDA e : e[1] \in {"unlink", "unlink_failed"})

\* C15: _safe_delete_file makes at most 5 deletion attempts and stops at the first
\* that succeeds; after the k-th failed attempt, k < 5, it waits 0.1 s times k and
\* tries again; after the fifth failed attempt it returns with no further wait or
\* attempt, so it always terminates.
C15_BoundedRetriesLinearBackoff ==
    \A r \in Req :
        LET trace == io[r]
            tries == Deletions(trace)
        IN  /\ Len(tries) <= max_retries
            /\ \A k \in 1..Len(tries) : tries[k][2] = k
            /\ \A i \in 1..Len(trace) :
                  /\ trace[i][1] = "unlink" => i = Len(trace) /\ pc[r] = "done"
                  /\ trace[i][1] = "unlink_failed" /\ trace[i][2] < max_retries =>
                        /\ i < Len(trace)
                        /\ trace[i+1] = <<"sleep", retry_delay * trace[i][2]>>
                  /\ trace[i][1] = "unlink_failed" /\ trace[i][2] = max_retries =>
                        /\ pc[r] = "done"
                        /\ \A j \in (i+1)..Len(trace) : trace[j][1] = "log_warning"
                  /\ trace[i][1] = "sleep" =>
                        /\ i > 1 /\ trace[i-1][1] = "unlink_failed"
                        /\ trace[i][2] \in 1..(max_retries - 1)
            /\ pc[r] \in {"unlink", "sleep"} =>
                  /\ Len(tries) = attempt[r] + (IF pc[r] = "sleep" THEN 1 ELSE 0)
                  /\ attempt[r] < max_retries
                  /\ ENABLED (safe_delete_attempt(r) \/ safe_delete_wakes(r))

\* all five attempts failed, with the waits 0.1, 0.2, 0.3 and 0.4 s between them
C15_Witness ==
    \E r \in Req :
        /\ pc[r] = "done"
        /\ Deletions(io[r]) = [k \in 1..5 |-> <<"unlink_failed", k>>]
        /\ SelectSeq(io[r], LAMBDA e : e[1] = "sleep") = [k \in 1..4 |-> <<"sleep", k>>]

\* the third attempt succeeded, after waits of 0.1 and 0.2 s, and was the last
C15_StopsAtSuccess ==
    \E r \in Req :
        /\ pc[r] = "done"
        /\ Deletions(io[r]) = <<<<"unlink_failed", 1>>, <<"unlink_failed", 2>>, <<"unlink", 3>>>>
        /\ Count(io[r], "sleep") = 2

\* the cleanup's failure did not reach the handler: the request is answered by
\* the conversion's outcome
NotRaised(r) ==
    /\ response[r] = HandlerResponse(endpoint[r], result[r], FALSE)
    /\ response[r].cause # "cleanup_error"

Constructed == ipc \in {"built", "failed"}

\* C17: engine construction follows the ladder rich options -> device only ->
\* bare defaults: when the pipeline-options configuration is absent, or the
\* engine constructor rejects it, the device-only construction is attempted
\* next; the construction without options is attempted last; and the adapter's
\* construction, once the engine constructor has been called, fails only if the
\* construction without options itself fails.
C17_DegradationLadder ==
    /\ calls # <<>> /\ host.options # "ok" => calls[1] = {"device"}
    /\ Constructed /\ calls # <<>> /\ calls[1] = {"pipeline_options"}
          /\ construct_caught(host.with_options)
          => Len(calls) >= 2 /\ calls[2] = {"device"}
    /\ \A i \in 1..Len(calls) : calls[i] = {} => i = Len(calls)
    /\ ipc = "failed" /\ calls # <<>> => Last(calls) = {} /\ host.default # "ok"

GpuRequested == startswith(DOCLING_DEVICE, cuda)
GpuUsable == host.import_torch = "ok" /\ host.cuda = "True"

\* C18: when the selector names a GPU and none is usable on the host (CUDA
\* unavailable, torch not installed, or its probing fails) construction goes on
\* with device 'cpu'; when the selector is 'cpu' or the GPU is available the
\* selector is kept; device selection never makes construction fail.
C18_DeviceSelectionNeverFatal ==
    ipc \notin {"idle", "start"} =>
        /\ device = IF GpuRequested /\ ~GpuUsable THEN cpu ELSE DOCLING_DEVICE
        /\ ipc = "failed" => calls # <<>>

\* C19: while a request is cleaning up its staged file with retries the event
\* loop is not blocked: between the deletion attempts, backoff waits included,
\* every other pending request can take its next step.
C19_CleanupDoesNotBlockLoop ==
    \A r \in Req :
        pc[r] \in {"unlink", "sleep"} =>
            \A q \in active \ {r} :
                /\ pc[q] = "new" => ENABLED convert_file(q) /\ ENABLED convert_from_url(q)
                /\ pc[q] = "await_read" => ENABLED file_read(q)
                /\ pc[q] = "await_get" => ENABLED download_headers(q)
                /\ pc[q] = "fetched" => ENABLED url_downloaded(q)
                /\ pc[q] = "worker_done" => ENABLED convert_resumes(q)

\* the place of the first event e in a trace that has one
Pos(trace, e) == CHOOSE i \in 1..Len(trace) :
                    trace[i][1] = e /\ \A j \in 1..(i-1) : trace[j][1] # e

\* C20: within one convert_from_bytes call the engine's convert starts only after
\* the buffer has been written, flushed and the handle closed, in this order, and
\* the first deletion attempt starts only after the worker's convert has
\* returned or raised.
C20_StagedThenConvertedThenDeleted ==
    \A r \in Req :
        LET trace == io[r]
        IN  /\ Has(trace, "submit") =>
                  /\ \A e \in {"create", "write", "flush", "close", "submit"} :
                        Count(trace, e) = 1
                  /\ Pos(trace, "create") < Pos(trace, "write")
                  /\ Pos(trace, "write") < Pos(trace, "flush")
                  /\ Pos(trace, "flush") < Pos(trace, "close")
                  /\ Pos(trace, "close") < Pos(trace, "submit")
            /\ Has(trace, "convert_begin") =>
                  /\ Has(trace, "submit")
                  /\ Pos(trace, "submit") < Pos(trace, "convert_begin")
                  /\ Count(trace, "convert_begin") = 1
            /\ Has(trace, "convert_end") =>
                  /\ Has(trace, "convert_begin")
                  /\ Pos(trace, "convert_begin") < Pos(trace, "convert_end")
            /\ pc[r] \in {"unlink", "sleep"} => Has(trace, "convert_end")
            /\ \A i \in 1..Len(trace) :
                  trace[i][1] \in {"unlink", "unlink_failed"} =>
                      Has(trace, "convert_end") /\ Pos(trace, "convert_end") < i

\* a request went the whole way: staged, converted, deleted at the second attempt
C20_Witness ==
    \E r \in Req :
        /\ pc[r] = "done" /\ response[r].status = 200
        /\ Deletions(io[r]) = <<<<"unlink_failed", 1>>, <<"unlink", 2>>>>
        /\ Has(io[r], "convert_end")

\* the calls of get_converter the handler of request r has made
Calls(trace) == Count(trace, "get_converter")

\* C22: a failed construction is never cached.  When DocumentConverter() raises
\* inside get_converter the global stays unset; startup_event swallows the error
\* and the server starts; each later call of get_converter that finds the global
\* unset constructs afresh, so the construction attempts of a process can exceed
\* one while at most one instance is ever constructed and returned.
C22_FailedConstructionNotCached ==
    /\ [](/\ _global_converter = None <=> instances = 0
          /\ instances <= 1 /\ instances <= attempts
          /\ \A r \in Req :
                /\ converter[r] # None => converter[r] = _global_converter
                /\ response[r].cause = "construct_error" =>
                      converter[r] = None /\ response[r].status = 500
                /\ startup = "done" /\ r \in active /\ pc[r] = "new" /\ LoopFree
                      => ENABLED convert_file(r))
    /\ [][/\ _global_converter = None
          /\ \/ startup' # startup
             \/ \E r \in Req : Calls(io'[r]) > Calls(io[r])
          => /\ attempts' = attempts + 1
             /\ _global_converter' = None <=> instances' = instances]_vars

\* the construction failed at startup and again for one request, and succeeded
\* for the other: three attempts, one instance
C22_Witness ==
    /\ startup = "done" /\ attempts = 3 /\ instances = 1
    /\ \E r, q \in Req :
        /\ response[r].cause = "construct_error"
        /\ converter[q] # None /\ converter[q] = _global_converter

\* the Content-Disposition header of the call, "" without one
Disposition == dict_get(headers, "Content-Disposition", <<>>)

\* the value of the header's filename= parameter: what follows the first
\* "filename=" up to the next ";" or the end, stripped of quotes
ParamValue ==
    LET from == find(Disposition, filename_eq) + Len(filename_eq)
    IN  strip(SubSeq(Disposition, from, upto(Disposition, from, {";"}) - 1), quotes)

\* C21: _extract_filename returns (a) the value of the filename= parameter of
\* Content-Disposition, stripped of quotes, when the header has the parameter and
\* the value is not empty, also when further parameters follow it; otherwise (b)
\* the last path segment of the URL when it is not empty; otherwise (c) 'document'.
C21_FilenamePriority ==
    xpc = "returned" =>
        extracted =
            IF Includes(Disposition, filename_eq) /\ ParamValue # <<>>
            THEN ParamValue
            ELSE IF path_name(urlparse_path(url)) # <<>>
            THEN path_name(urlparse_path(url))
            ELSE document

\* e is one of the entries of list
Listed(e, list) == \E i \in 1..Len(list) : list[i] = e

\* C23: the advertised and the enforced allow-lists agree for every value of the
\* setting: the extension check accepts a filename if and only if its extension
\* is among the formats GET /supported-formats lists, and it never accepts a
\* filename without a dot.
C23_AdvertisedIsEnforced ==
    fpc = "returned" /\ vpc = "returned" =>
        /\ Contains(probe, ".") => (accepted <=> Listed(FileExt(probe), formats))
        /\ ~Contains(probe, ".") => ~accepted

====
